---- MODULE Spec2Model ----
(***************************************************************************)
(* The ABASIC web front end: the turn-taking execution driver              *)
(* (abasic-web/ts/main.ts, class Interpreter), the console it prints to    *)
(* (abasic-web/ts/ui.ts) and the page's event handlers.                    *)
(*                                                                         *)
(* JavaScript runs every event handler to completion, so each action below *)
(* is one whole handler: the page's start-up, a timer firing, a key press, *)
(* a form submission.  The methods of the source are operators on a record *)
(* `w` holding every field of the program ("the world"); an action applies *)
(* the handler's operators to the current world and stores the result.     *)
(*                                                                         *)
(* The interpreter engine (the Rust crate behind JsInterpreter) is not     *)
(* part of the TypeScript sources.  It is modelled as a black box that     *)
(* answers each call with any response its interface allows.               *)
(*                                                                         *)
(* Texts are sequences of characters; a character is a one-symbol string,  *)
(* with "NL" for the line terminator and "SP" for a space.                 *)
(***************************************************************************)
EXTENDS Integers, Sequences, FiniteSets, TLC

\* Bounds of the model: the events and errors the engine produces, and the
\* lines the user submits.
MaxEvents == 2
MaxLines == 1

\* The length of the program texts loaded, in characters.
MaxProgram == 4

\* The calls a caller of the console makes in a row.
MaxCalls == 3

\* The lines submitted while the input history is followed.
MaxHistory == 2

\* The editor extension: the connections its client asks for, and the
\* attempts made for one of them.
MaxConnections == 2
MaxAttempts == 3

VARIABLES
    phase,                      \* position of the page's start-up handler
    state, outq, err,           \* engine: state, output queue, latest error
    produced, seeds,            \* engine: events produced, times seeded
    isFullyInteractive, timers, \* Interpreter: flag, pending setTimeout calls
    outputEl, latestPartialLine, promptEl, a11yOutputEl,
    inputValue, inputDisabled, nextNode,
    temporaryInputHistoryIndex, temporaryInputHistory, committedInputHistory,
    log, fault,                 \* calls made by the last handler; it threw
    batchLoaded, broken,        \* history: a program was loaded; a break took
    lastObserved,               \* the state the latest turn read
    delivered,                  \* lines submitUserInput gave the engine
    keys,                       \* a submission and the arrow keys right after it
    requests                    \* extension.ts: the calls of connectToLanguageServer

pageVars == << phase, state, outq, err, produced, seeds, isFullyInteractive,
           timers, outputEl, latestPartialLine, promptEl, a11yOutputEl,
           inputValue, inputDisabled, nextNode, temporaryInputHistoryIndex,
           temporaryInputHistory, committedInputHistory, log, fault,
           batchLoaded, broken, lastObserved, delivered, keys >>

vars == << pageVars, requests >>

-----------------------------------------------------------------------------
\* Texts

NL == "NL"
SP == "SP"

Digits == {"1", "2"}

EndsWithNL(t) == Len(t) > 0 /\ t[Len(t)] = NL

\* String.prototype.trim() leaves nothing: every character is white space.
IsBlank(t) == \A i \in 1..Len(t) : t[i] = SP

\* /^[0-9]/.test(line)
StartsWithDigit(t) == Len(t) > 0 /\ t[1] \in Digits

\* String.prototype.split("\n")
RECURSIVE Split(_)
Split(t) ==
    IF \A i \in 1..Len(t) : t[i] # NL
    THEN << t >>
    ELSE LET i == CHOOSE k \in 1..Len(t) :
                      t[k] = NL /\ \A j \in 1..(k - 1) : t[j] # NL
         IN  << SubSeq(t, 1, i - 1) >> \o Split(SubSeq(t, i + 1, Len(t)))

PromptIdle == << "]", SP >>
PromptInput == << "?", SP >>
BreakEmoji == << "BOOM" >>
RunCommand == << "R", "U", "N" >>
Welcome == << "W", NL >>
LoadingText == << "L" >>
FailedText == << NL, "F", NL >>

-----------------------------------------------------------------------------
\* The record of every field, and the call log

World ==
    [ phase |-> phase, state |-> state, outq |-> outq, err |-> err,
      produced |-> produced, seeds |-> seeds,
      isFullyInteractive |-> isFullyInteractive, timers |-> timers,
      outputEl |-> outputEl, latestPartialLine |-> latestPartialLine,
      promptEl |-> promptEl, a11yOutputEl |-> a11yOutputEl,
      inputValue |-> inputValue, inputDisabled |-> inputDisabled,
      nextNode |-> nextNode,
      temporaryInputHistoryIndex |-> temporaryInputHistoryIndex,
      temporaryInputHistory |-> temporaryInputHistory,
      committedInputHistory |-> committedInputHistory,
      log |-> log, fault |-> fault, batchLoaded |-> batchLoaded,
      broken |-> broken, lastObserved |-> lastObserved,
      delivered |-> delivered, keys |-> keys ]

Becomes(w) ==
    /\ phase' = w.phase
    /\ state' = w.state
    /\ outq' = w.outq
    /\ err' = w.err
    /\ produced' = w.produced
    /\ seeds' = w.seeds
    /\ isFullyInteractive' = w.isFullyInteractive
    /\ timers' = w.timers
    /\ outputEl' = w.outputEl
    /\ latestPartialLine' = w.latestPartialLine
    /\ promptEl' = w.promptEl
    /\ a11yOutputEl' = w.a11yOutputEl
    /\ inputValue' = w.inputValue
    /\ inputDisabled' = w.inputDisabled
    /\ nextNode' = w.nextNode
    /\ temporaryInputHistoryIndex' = w.temporaryInputHistoryIndex
    /\ temporaryInputHistory' = w.temporaryInputHistory
    /\ committedInputHistory' = w.committedInputHistory
    /\ log' = w.log
    /\ fault' = w.fault
    /\ batchLoaded' = w.batchLoaded
    /\ broken' = w.broken
    /\ lastObserved' = w.lastObserved
    /\ delivered' = w.delivered
    /\ keys' = w.keys
    /\ UNCHANGED requests

\* One call: its name, its text argument, the engine state it met or
\* returned, and the engine event it concerns (0: none).  The entry into
\* handleCurrentState records the text of the prompt in place of an argument.
Call(op, arg, st, id) == [ op |-> op, arg |-> arg, st |-> st, id |-> id ]

Logged(w, op, arg, st, id) ==
    [ w EXCEPT !.log = Append(@, Call(op, arg, st, id)) ]

\* A handler starts with an empty call log and no exception; it ends a row
\* of arrow keys unless it is one.
Fresh(w) == [ w EXCEPT !.log = << >>, !.fault = FALSE, !.keys = << >> ]

\* throw new Error(...): the rest of the handler does not run.
Throw(w, what) == [ Logged(w, "throw", what, w.state, 0) EXCEPT !.fault = TRUE ]

-----------------------------------------------------------------------------
\* The engine (JsInterpreter), a black box behind its interface

States == { "Idle", "Running", "AwaitingInput", "Errored" }
NotErrored == States \ { "Errored" }
Kinds == { "Print", "Trace", "Break", "Warning", "Reenter", "ExtraIgnored" }

Event(kind, text) == [ kind |-> kind, text |-> text ]

\* What one engine call may add to the output queue.
Emits ==
    { << >>,
      << Event("Warning", << "V" >>), Event("Print", << "A" >>) >> }

\* The diagnostics an engine call may fail with; << >> is the engine
\* failing without leaving one.
ErrorTexts == { << "E", NL, "C" >> }
Errors == { << >> } \cup { << e >> : e \in ErrorTexts }

\* The answers of a call that advances the program: the state it leaves,
\* the output it queues, the error it records.
Responses ==
    { [ st |-> s, out |-> o, err |-> << >> ] : s \in NotErrored, o \in Emits }
        \cup { [ st |-> "Errored", out |-> << >>, err |-> e ] : e \in Errors }

\* The answers to a numbered program line: it is stored, or it is refused.
LineResponses ==
    { r \in Responses : r.out = << >> /\ r.st \in { "Idle", "Errored" } }

\* The engine numbers the events it queues; it produces at most MaxEvents
\* events and errors: beyond that a call queues nothing and does not fail.
Room(w, c) ==
    w.produced + Len(c.out) + (IF c.st = "Errored" THEN 1 ELSE 0) <= MaxEvents

Bounded(w, c) ==
    IF Room(w, c) THEN c
    ELSE [ st |-> IF c.st = "Errored" THEN "Idle" ELSE c.st,
           out |-> << >>, err |-> << >> ]

Stamp(out, base) ==
    [ i \in 1..Len(out) |->
        [ kind |-> out[i].kind, text |-> out[i].text, id |-> base + i ] ]

Respond(w, c0) ==
    LET c == Bounded(w, c0)
    IN  [ w EXCEPT !.state = c.st,
                   !.outq = @ \o Stamp(c.out, w.produced),
                   !.produced = @ + Len(c.out)
                                  + (IF c.st = "Errored" THEN 1 ELSE 0),
                   !.err = IF c.st = "Errored" THEN c.err ELSE @ ]

randomize(w) == [ Logged(w, "randomize", << >>, w.state, 0) EXCEPT !.seeds = @ + 1 ]

get_state(w) == Logged(w, "get_state", << >>, w.state, 0)

start_evaluating(w, line, c) ==
    Respond(Logged(w, "start_evaluating", line, w.state, 0), c)

continue_evaluating(w, c) ==
    Respond(Logged(w, "continue_evaluating", << >>, w.state, 0), c)

provide_input(w, value, c) ==
    Respond(Logged(w, "provide_input", value, w.state, 0), c)

\* The program halts where it is and the engine reports the break.
break_at_current_location(w) ==
    Respond(Logged(w, "break_at_current_location", << >>, w.state, 0),
            [ st |-> "Idle", out |-> << Event("Break", << "K" >>) >>,
              err |-> << >> ])

\* Returns w.outq and leaves the queue empty.
take_latest_output(w) ==
    [ Logged(w, "take_latest_output", [ i \in 1..Len(w.outq) |-> w.outq[i].id ],
             w.state, 0)
      EXCEPT !.outq = << >> ]

\* Returns w.err and leaves no error; an error that was taken ends the
\* Errored state, the engine going on in state r.
take_latest_error(w, r) ==
    [ Logged(w, "take_latest_error", << >>, w.state, 0)
      EXCEPT !.err = << >>,
             !.state = IF w.state = "Errored" /\ w.err # << >> THEN r ELSE @ ]

-----------------------------------------------------------------------------
\* The console (ui.ts)

Node(nid, tag, cls, text, ev) ==
    [ nid |-> nid, tag |-> tag, cls |-> cls, text |-> text, ev |-> ev ]

\* A string to print, or a span element built by printSpanWithClass; ev is
\* the engine event the text renders (0: none).
Str(text, ev) == [ tag |-> "text", cls |-> "", text |-> text, ev |-> ev ]
Span(text, cls, ev) == [ tag |-> "span", cls |-> cls, text |-> text, ev |-> ev ]

RECURSIVE TextContent(_)
TextContent(nodes) ==
    IF nodes = << >> THEN << >>
    ELSE Head(nodes).text \o TextContent(Tail(nodes))

Without(nodes, chunks) ==
    SelectSeq(nodes, LAMBDA n : \A i \in 1..Len(chunks) : chunks[i].nid # n.nid)

\* print reading the text of strings only: a span counts as a fragment of
\* the open line whatever its text ends with.
print_SpansStayOpen(w, msg) ==
    LET node == Node(w.nextNode, msg.tag, msg.cls, msg.text, msg.ev)
        clone == [ tag |-> msg.tag, cls |-> msg.cls,
                   text |-> IF msg.tag = "text" THEN msg.text ELSE << >>,
                   ev |-> msg.ev ]
    IN  [ Logged(w, "print", msg.text, msg.cls, msg.ev)
          EXCEPT !.nextNode = @ + 1,
                 !.latestPartialLine =
                     IF msg.tag = "text" /\ EndsWithNL(msg.text)
                     THEN << >> ELSE Append(@, node),
                 !.outputEl = Append(@, node),
                 !.a11yOutputEl = Append(@, clone) ]

\* print keeping the fragments of a line that a line terminator ends.
print_KeepsFragments(w, msg) ==
    LET node == Node(w.nextNode, msg.tag, msg.cls, msg.text, msg.ev)
        clone == [ tag |-> msg.tag, cls |-> msg.cls,
                   text |-> IF msg.tag = "text" THEN msg.text ELSE << >>,
                   ev |-> msg.ev ]
    IN  [ Logged(w, "print", msg.text, msg.cls, msg.ev)
          EXCEPT !.nextNode = @ + 1,
                 !.latestPartialLine =
                     IF EndsWithNL(msg.text) THEN @ ELSE Append(@, node),
                 !.outputEl = Append(@, node),
                 !.a11yOutputEl = Append(@, clone) ]

print(w, msg) ==
    LET node == Node(w.nextNode, msg.tag, msg.cls, msg.text, msg.ev)
        \* node.cloneNode() copies a text node's data and no child of a span
        clone == [ tag |-> msg.tag, cls |-> msg.cls,
                   text |-> IF msg.tag = "text" THEN msg.text ELSE << >>,
                   ev |-> msg.ev ]
    IN  [ Logged(w, "print", msg.text, msg.cls, msg.ev)
          EXCEPT !.nextNode = @ + 1,
                 !.latestPartialLine =
                     IF EndsWithNL(msg.text) THEN << >> ELSE Append(@, node),
                 !.outputEl = Append(@, node),
                 !.a11yOutputEl = Append(@, clone) ]

printSpanWithClass(w, msg, className, ev) == print(w, Span(msg, className, ev))

\* clearScreen emptying the prompt line along with the output.
clearScreen_AndPrompt(w) ==
    [ Logged(w, "clearScreen", << >>, "", 0)
      EXCEPT !.outputEl = << >>, !.promptEl = << >> ]

clearScreen(w) == [ Logged(w, "clearScreen", << >>, "", 0) EXCEPT !.outputEl = << >> ]

\* setPrompt without `promptEl.textContent = ""`: the new prompt comes
\* after the old one.
setPrompt_Appends(w, prompt) ==
    LET chunks == w.latestPartialLine
        shown == w.promptEl \o chunks
                     \o << Node(w.nextNode, "text", "", prompt, 0) >>
    IN  [ Logged(w, "setPrompt", prompt, "", 0)
          EXCEPT !.nextNode = @ + 1,
                 !.promptEl = shown,
                 !.outputEl = Without(@, chunks),
                 !.latestPartialLine = << >>,
                 !.a11yOutputEl =
                     Append(@, [ tag |-> "label", cls |-> "",
                                 text |-> TextContent(shown), ev |-> 0 ]) ]

setPrompt(w, prompt) ==
    LET chunks == w.latestPartialLine
        shown == chunks \o << Node(w.nextNode, "text", "", prompt, 0) >>
    IN  [ Logged(w, "setPrompt", prompt, "", 0)
          EXCEPT !.nextNode = @ + 1,
                 !.promptEl = shown,
                 !.outputEl = Without(@, chunks),
                 !.latestPartialLine = << >>,
                 !.a11yOutputEl =
                     Append(@, [ tag |-> "label", cls |-> "",
                                 text |-> TextContent(shown), ev |-> 0 ]) ]

\* commitCurrentPromptToOutput moving the prompt into the output: the
\* label is left empty.
commitCurrentPromptToOutput_TakesPrompt(w, additionalText) ==
    LET el == Node(w.nextNode, "div", "prompt-response",
                   TextContent(w.promptEl) \o additionalText, 0)
    IN  [ Logged(w, "commitCurrentPromptToOutput", additionalText, "", 0)
          EXCEPT !.nextNode = @ + 1,
                 !.promptEl = << >>,
                 !.outputEl = Append(@, el) ]

commitCurrentPromptToOutput(w, additionalText) ==
    LET el == Node(w.nextNode, "div", "prompt-response",
                   TextContent(w.promptEl) \o additionalText, 0)
    IN  [ Logged(w, "commitCurrentPromptToOutput", additionalText, "", 0)
          EXCEPT !.nextNode = @ + 1,
                 !.outputEl = Append(@, el) ]

getInput(w) == w.inputValue

clearInput(w) == [ Logged(w, "clearInput", << >>, "", 0) EXCEPT !.inputValue = << >> ]

\* clearPromptAndDisableInput without clearInput().
clearPromptAndDisableInput_KeepsInput(w) ==
    [ setPrompt(Logged(w, "clearPromptAndDisableInput", << >>, "", 0), << >>)
      EXCEPT !.inputDisabled = TRUE ]

clearPromptAndDisableInput(w) ==
    [ clearInput(setPrompt(Logged(w, "clearPromptAndDisableInput", << >>, "", 0),
                           << >>))
      EXCEPT !.inputDisabled = TRUE ]

-----------------------------------------------------------------------------
\* The driver (main.ts, class Interpreter)

unreachable(w, arg) == Throw(w, << "unreachable" >>)

\* ShowItem with the Trace case falling through to the cases below it.
ShowItem_TraceFallsThrough(w, item) ==
    CASE item.kind = "Print" ->
            print(w, Str(item.text, item.id))
      [] item.kind \in { "Trace", "Break", "ExtraIgnored", "Reenter", "Warning" } ->
            printSpanWithClass(w, item.text \o << NL >>, "warning", item.id)
      [] OTHER ->
            unreachable(w, item.kind)

\* One item of showOutput's loop.
ShowItem(w, item) ==
    CASE item.kind = "Print" ->
            print(w, Str(item.text, item.id))
      [] item.kind = "Trace" ->
            printSpanWithClass(w, item.text \o << SP >>, "info", item.id)
      [] item.kind \in { "Break", "ExtraIgnored", "Reenter", "Warning" } ->
            printSpanWithClass(w, item.text \o << NL >>, "warning", item.id)
      [] OTHER ->
            unreachable(w, item.kind)

RECURSIVE ShowItems(_, _)
ShowItems(w, output) ==
    IF output = << >> \/ w.fault THEN w
    ELSE ShowItems(ShowItem(w, Head(output)), Tail(output))

\* showOutput rendering what it took after everything it took before: the
\* items of the turn are shown a second time.
showOutput_Replays(w) == ShowItems(take_latest_output(w), w.outq \o w.outq)

\* showOutput rendering the newest event first.
RECURSIVE ShowItemsBackwards(_, _)
ShowItemsBackwards(w, output) ==
    IF output = << >> \/ w.fault THEN w
    ELSE ShowItemsBackwards(ShowItem(w, output[Len(output)]),
                            SubSeq(output, 1, Len(output) - 1))

showOutput_Backwards(w) == ShowItemsBackwards(take_latest_output(w), w.outq)

showOutput(w) == ShowItems(take_latest_output(w), w.outq)

\* PrintErrorLines taking the index of the first line for 1: no line is
\* classed "error".
RECURSIVE PrintErrorLines_OffByOne(_, _, _)
PrintErrorLines_OffByOne(w, lines, i) ==
    IF i > Len(lines) THEN w
    ELSE PrintErrorLines_OffByOne(
             printSpanWithClass(w, lines[i] \o << NL >>,
                                IF i = 0 THEN "error" ELSE "error-context", 0),
             lines, i + 1)

\* err.split("\n").map(...): line i is printed with its terminator, the
\* first as "error" and the others as "error-context".
RECURSIVE PrintErrorLines(_, _, _)
PrintErrorLines(w, lines, i) ==
    IF i > Len(lines) THEN w
    ELSE PrintErrorLines(
             printSpanWithClass(w, lines[i] \o << NL >>,
                                IF i = 1 THEN "error" ELSE "error-context", 0),
             lines, i + 1)

\* WhenIdle without the `return` after the input is disabled: the idle
\* prompt is set all the same.
WhenIdle_NoReturn(w) ==
    IF ~w.isFullyInteractive
    THEN setPrompt(clearPromptAndDisableInput(w), PromptIdle)
    ELSE setPrompt(w, PromptIdle)

\* case JsInterpreterState.Idle
WhenIdle(w) ==
    IF ~w.isFullyInteractive
    THEN clearPromptAndDisableInput(w)
    ELSE setPrompt(w, PromptIdle)

\* WhenAwaitingInput polling the engine: it schedules a turn as the
\* Running case does.
WhenAwaitingInput_Polling(w) ==
    [ Logged(setPrompt(w, PromptInput), "setTimeout", << >>, "", 0)
      EXCEPT !.timers = @ + 1 ]

\* case JsInterpreterState.AwaitingInput
WhenAwaitingInput(w) == setPrompt(w, PromptInput)

\* WhenRunning without the window.setTimeout call.
WhenRunning_NoReschedule(w, c) == continue_evaluating(w, c)

\* case JsInterpreterState.Running; c is the engine's answer.
WhenRunning(w, c) ==
    [ Logged(continue_evaluating(w, c), "setTimeout", << >>, "", 0)
      EXCEPT !.timers = @ + 1 ]

\* One turn.  r and c are the engine's answers to the turn's
\* take_latest_error and continue_evaluating, should it make them.
RECURSIVE handleCurrentState(_, _, _)

\* handleCurrentState taking an absent error for no error at all: the turn
\* goes on as if the engine were Idle.
handleCurrentState_Swallows(w, r, c) ==
    LET w1 == showOutput(Logged(w, "handleCurrentState",
                                TextContent(w.promptEl), w.state, 0))
        w2 == [ get_state(w1) EXCEPT !.lastObserved = w1.state ]
    IN  IF w1.fault THEN w1
        ELSE CASE w1.state = "Idle" -> WhenIdle(w2)
               [] w1.state = "AwaitingInput" -> WhenAwaitingInput(w2)
               [] w1.state = "Errored" ->
                    IF w2.err = << >>
                    THEN WhenIdle(take_latest_error(w2, r))
                    ELSE handleCurrentState(
                             PrintErrorLines(take_latest_error(w2, r),
                                             Split(w2.err[1]), 1),
                             r, c)
               [] w1.state = "Running" -> WhenRunning(w2, c)
               [] OTHER -> unreachable(w2, w1.state)

handleCurrentState(w, r, c) ==
    LET w1 == showOutput(Logged(w, "handleCurrentState",
                                TextContent(w.promptEl), w.state, 0))
        w2 == [ get_state(w1) EXCEPT !.lastObserved = w1.state ]
    IN  IF w1.fault THEN w1
        ELSE CASE w1.state = "Idle" -> WhenIdle(w2)
               [] w1.state = "AwaitingInput" -> WhenAwaitingInput(w2)
               [] w1.state = "Errored" ->
                    IF w2.err = << >>
                    THEN Throw(take_latest_error(w2, r), << "assertion" >>)
                    ELSE handleCurrentState(
                             PrintErrorLines(take_latest_error(w2, r),
                                             Split(w2.err[1]), 1),
                             r, c)
               [] w1.state = "Running" -> WhenRunning(w2, c)
               [] OTHER -> unreachable(w2, w1.state)

\* The constructor without its last line: the engine is never seeded.
Interpreter_Unseeded(w) == [ w EXCEPT !.isFullyInteractive = TRUE ]

Interpreter(w) == [ randomize(w) EXCEPT !.isFullyInteractive = TRUE ]

\* String.prototype.trimStart()
RECURSIVE TrimStart(_)
TrimStart(t) ==
    IF t # << >> /\ Head(t) = SP THEN TrimStart(Tail(t)) ELSE t

\* LoadLines looking for the line number after the white space a line
\* starts with.
RECURSIVE LoadLines_Trimmed(_, _, _, _)
LoadLines_Trimmed(w, lines, cs, i) ==
    IF i > Len(lines) THEN w
    ELSE LoadLines_Trimmed(
             IF IsBlank(lines[i]) THEN w
             ELSE IF ~StartsWithDigit(TrimStart(lines[i]))
                  THEN Logged(w, "console.warn", lines[i], "", 0)
                  ELSE start_evaluating(w, lines[i], cs[i]),
             lines, cs, i + 1)

\* The loop over the lines of the source: cs[i] is the engine's answer to
\* line i.
RECURSIVE LoadLines(_, _, _, _)
LoadLines(w, lines, cs, i) ==
    IF i > Len(lines) THEN w
    ELSE LoadLines(
             IF IsBlank(lines[i]) THEN w
             ELSE IF ~StartsWithDigit(lines[i])
                  THEN Logged(w, "console.warn", lines[i], "", 0)
                  ELSE start_evaluating(w, lines[i], cs[i]),
             lines, cs, i + 1)

\* loadAndRunSourceCode running the program only when it stored a line.
loadAndRunSourceCode_RunIfAny(w, sourceCode, cs, crun) ==
    LET w1 == LoadLines([ Logged(w, "loadAndRunSourceCode", sourceCode, w.state, 0)
                          EXCEPT !.isFullyInteractive = FALSE,
                                 !.batchLoaded = TRUE ],
                        Split(sourceCode), cs, 1)
    IN  IF \E i \in 1..Len(Split(sourceCode)) : StartsWithDigit(Split(sourceCode)[i])
        THEN start_evaluating(w1, RunCommand, crun)
        ELSE w1

\* loadAndRunSourceCode leaving isFullyInteractive as the constructor set it.
loadAndRunSourceCode_StaysInteractive(w, sourceCode, cs, crun) ==
    start_evaluating(
        LoadLines([ Logged(w, "loadAndRunSourceCode", sourceCode, w.state, 0)
                    EXCEPT !.batchLoaded = TRUE ],
                  Split(sourceCode), cs, 1),
        RunCommand, crun)

loadAndRunSourceCode(w, sourceCode, cs, crun) ==
    start_evaluating(
        LoadLines([ Logged(w, "loadAndRunSourceCode", sourceCode, w.state, 0)
                    EXCEPT !.isFullyInteractive = FALSE,
                           !.batchLoaded = TRUE ],
                  Split(sourceCode), cs, 1),
        RunCommand, crun)

start(w, r, c) ==
    handleCurrentState(
        IF w.isFullyInteractive THEN print(w, Str(Welcome, 0)) ELSE w, r, c)

canProcessUserInput(w) == w.state \in { "Idle", "AwaitingInput" }

canBreak(w) == w.state # "Idle"

\* submitUserInput without the final `else`: whatever is not Idle is taken
\* for AwaitingInput.
submitUserInput_Unchecked(w, input, c1, r, c) ==
    LET w0 == get_state(Logged(w, "submitUserInput", input, w.state, 0))
        w1 == [ w0 EXCEPT !.delivered = @ + 1 ]
    IN  IF w.state = "Idle"
        THEN handleCurrentState(
                 setPrompt(start_evaluating(w1, input, c1), << >>), r, c)
        ELSE handleCurrentState(
                 setPrompt(provide_input(w1, input, c1), << >>), r, c)

\* submitUserInput giving the engine every input as a new command.
submitUserInput_AlwaysStart(w, input, c1, r, c) ==
    LET w0 == get_state(Logged(w, "submitUserInput", input, w.state, 0))
        w1 == [ w0 EXCEPT !.delivered = @ + 1 ]
    IN  IF w.state = "Idle" \/ w.state = "AwaitingInput"
        THEN handleCurrentState(
                 setPrompt(start_evaluating(w1, input, c1), << >>), r, c)
        ELSE Throw(w0, << "submitUserInput" >>)

\* c1 is the engine's answer to the delivery of the input.
submitUserInput(w, input, c1, r, c) ==
    LET w0 == get_state(Logged(w, "submitUserInput", input, w.state, 0))
        w1 == [ w0 EXCEPT !.delivered = @ + 1 ]
    IN  IF w.state = "Idle"
        THEN handleCurrentState(
                 setPrompt(start_evaluating(w1, input, c1), << >>), r, c)
        ELSE IF w.state = "AwaitingInput"
        THEN handleCurrentState(
                 setPrompt(provide_input(w1, input, c1), << >>), r, c)
        ELSE Throw(w0, << "submitUserInput" >>)

\* breakAtCurrentLocation without the test of the state.
breakAtCurrentLocation_Unguarded(w, r, c) ==
    LET w1 == get_state(Logged(w, "breakAtCurrentLocation", << >>, w.state, 0))
    IN  handleCurrentState(
            break_at_current_location(
                setPrompt(
                    commitCurrentPromptToOutput(
                        [ w1 EXCEPT !.isFullyInteractive = TRUE,
                                    !.broken = TRUE ],
                        << >>),
                    << >>)),
            r, c)

\* breakAtCurrentLocation as it was before isFullyInteractive existed: the
\* session stays as it was loaded.
breakAtCurrentLocation_StaysBatch(w, r, c) ==
    LET w1 == get_state(Logged(w, "breakAtCurrentLocation", << >>, w.state, 0))
    IN  IF w.state = "AwaitingInput" \/ w.state = "Running"
        THEN handleCurrentState(
                 break_at_current_location(
                     setPrompt(
                         commitCurrentPromptToOutput(
                             [ w1 EXCEPT !.broken = TRUE ], << >>),
                         << >>)),
                 r, c)
        ELSE w1

\* breakAtCurrentLocation without ui.commitCurrentPromptToOutput().
breakAtCurrentLocation_NoCommit(w, r, c) ==
    LET w1 == get_state(Logged(w, "breakAtCurrentLocation", << >>, w.state, 0))
    IN  IF w.state = "AwaitingInput" \/ w.state = "Running"
        THEN handleCurrentState(
                 break_at_current_location(
                     setPrompt([ w1 EXCEPT !.isFullyInteractive = TRUE,
                                           !.broken = TRUE ],
                               << >>)),
                 r, c)
        ELSE w1

breakAtCurrentLocation(w, r, c) ==
    LET w1 == get_state(Logged(w, "breakAtCurrentLocation", << >>, w.state, 0))
    IN  IF w.state = "AwaitingInput" \/ w.state = "Running"
        THEN handleCurrentState(
                 break_at_current_location(
                     setPrompt(
                         commitCurrentPromptToOutput(
                             [ w1 EXCEPT !.isFullyInteractive = TRUE,
                                         !.broken = TRUE ],
                             << >>),
                         << >>)),
                 r, c)
        ELSE w1

-----------------------------------------------------------------------------
\* The page: what the user may type, and the programs ?p= may name

InputValues == { << "X" >>, BreakEmoji }

Sources ==
    { << "P", NL, SP, NL, "1", "A" >> }

\* The input history (ui.ts); the index counts from 0 as in the source.
\* HistoryKey without the line that saves the input into the scratch
\* entry it leaves.
HistoryKey_NoSnapshot(w, delta) ==
    LET saved == w.temporaryInputHistory
        newIndex == w.temporaryInputHistoryIndex + delta
    IN  IF newIndex >= 0 /\ newIndex < Len(saved)
        THEN [ w EXCEPT !.temporaryInputHistoryIndex = newIndex,
                        !.inputValue = saved[newIndex + 1] ]
        ELSE w

\* HistoryKey going round from one end of the scratch entries to the other.
HistoryKey_Wraps(w, delta) ==
    LET saved == [ w.temporaryInputHistory
                     EXCEPT ![w.temporaryInputHistoryIndex + 1] = w.inputValue ]
        newIndex == (w.temporaryInputHistoryIndex + delta + Len(saved)) % Len(saved)
    IN  [ w EXCEPT !.temporaryInputHistory = saved,
                   !.temporaryInputHistoryIndex = newIndex,
                   !.inputValue = saved[newIndex + 1] ]

\* HistoryKey saving the input into the entry it moves to.
HistoryKey_SavesAtNewIndex(w, delta) ==
    LET newIndex == w.temporaryInputHistoryIndex + delta
    IN  IF newIndex >= 0 /\ newIndex < Len(w.temporaryInputHistory)
        THEN [ w EXCEPT !.temporaryInputHistory[newIndex + 1] = w.inputValue,
                        !.temporaryInputHistoryIndex = newIndex ]
        ELSE w

\* HistoryKey without the test of the new index: the cursor leaves the
\* scratch entries.
HistoryKey_Unguarded(w, delta) ==
    LET saved == [ w.temporaryInputHistory
                     EXCEPT ![w.temporaryInputHistoryIndex + 1] = w.inputValue ]
        newIndex == w.temporaryInputHistoryIndex + delta
    IN  [ w EXCEPT !.temporaryInputHistory = saved,
                   !.temporaryInputHistoryIndex = newIndex,
                   !.inputValue = IF newIndex >= 0 /\ newIndex < Len(saved)
                                  THEN saved[newIndex + 1] ELSE << >> ]

HistoryKey(w, delta) ==
    LET saved == [ w.temporaryInputHistory
                     EXCEPT ![w.temporaryInputHistoryIndex + 1] = w.inputValue ]
        newIndex == w.temporaryInputHistoryIndex + delta
    IN  IF newIndex >= 0 /\ newIndex < Len(saved)
        THEN [ w EXCEPT !.temporaryInputHistory = saved,
                        !.temporaryInputHistoryIndex = newIndex,
                        !.inputValue = saved[newIndex + 1] ]
        ELSE [ w EXCEPT !.temporaryInputHistory = saved ]

\* HistorySubmit keeping the scratch entries and adding the new line to them.
HistorySubmit_KeepsEdits(w) ==
    IF w.inputValue # << >>
    THEN LET committed == Append(w.committedInputHistory, w.inputValue)
             n == Len(w.temporaryInputHistory)
         IN  [ w EXCEPT !.committedInputHistory = committed,
                        !.temporaryInputHistory =
                            Append([ w.temporaryInputHistory
                                       EXCEPT ![n] = w.inputValue ], << >>),
                        !.temporaryInputHistoryIndex = Len(committed) ]
    ELSE w

\* HistorySubmit without the test for an empty input.
HistorySubmit_RecordsEmpty(w) ==
    LET committed == Append(w.committedInputHistory, w.inputValue)
    IN  [ w EXCEPT !.committedInputHistory = committed,
                   !.temporaryInputHistory = Append(committed, << >>),
                   !.temporaryInputHistoryIndex = Len(committed) ]

HistorySubmit(w) ==
    IF w.inputValue # << >>
    THEN LET committed == Append(w.committedInputHistory, w.inputValue)
         IN  [ w EXCEPT !.committedInputHistory = committed,
                        !.temporaryInputHistory = Append(committed, << >>),
                        !.temporaryInputHistoryIndex = Len(committed) ]
    ELSE w

\* The callback as it was before canProcessUserInput: whenever the program
\* can be broken it returns, having broken it for the emoji.
OnSubmitInput_ReturnsWhenBreakable(w, c1, r, c) ==
    LET input == getInput(w)
        w1 == get_state(w)
    IN  IF canBreak(w)
        THEN IF input = BreakEmoji
             THEN breakAtCurrentLocation(clearInput(w1), r, c)
             ELSE w1
        ELSE LET w3 == submitUserInput(
                           commitCurrentPromptToOutput(w1, input), input,
                           c1, r, c)
             IN  IF w3.fault THEN w3 ELSE clearInput(w3)

\* The callback main.ts gives ui.onSubmitInput.
OnSubmitInput(w, c1, r, c) ==
    LET input == getInput(w)
        w1 == get_state(w)
        w2 == get_state(w1)
    IN  IF canBreak(w) /\ input = BreakEmoji
        THEN breakAtCurrentLocation(clearInput(w1), r, c)
        ELSE IF ~canProcessUserInput(w)
        THEN w2
        ELSE LET w3 == submitUserInput(
                           commitCurrentPromptToOutput(w2, input), input,
                           c1, r, c)
             IN  IF w3.fault THEN w3 ELSE clearInput(w3)

\* The callback main.ts gives ui.onInputKeyDown, for CTRL-C; selected: some
\* of the input's text is selected.
OnCtrlC(w, selected, r, c) ==
    IF selected THEN w ELSE breakAtCurrentLocation(w, r, c)

\* wasm().then(...): the page's start-up, without a program, with a program
\* that cannot be fetched, and with the program's source text.
StartUp(w, r, c) ==
    LET w1 == start(clearScreen(Interpreter(w)), r, c)
    IN  [ w1 EXCEPT !.phase = IF w1.fault THEN "crashed" ELSE "started" ]

StartUpFailedFetch(w) ==
    [ printSpanWithClass(Interpreter(w), FailedText, "error", 0)
      EXCEPT !.phase = "failed" ]

StartUpWithProgram(w, sourceCode, cs, crun, r, c) ==
    LET w1 == start(loadAndRunSourceCode(clearScreen(Interpreter(w)),
                                         sourceCode, cs, crun), r, c)
    IN  [ w1 EXCEPT !.phase = IF w1.fault THEN "crashed" ELSE "started" ]

-----------------------------------------------------------------------------
\* The state machine

Init ==
    /\ phase = "loading"
    /\ state = "Idle"
    /\ outq = << >>
    /\ err = << >>
    /\ produced = 0
    /\ seeds = 0
    /\ isFullyInteractive = TRUE
    /\ timers = 0
    /\ outputEl = << Node(0, "text", "", LoadingText, 0) >>
    /\ latestPartialLine = << >>
    /\ promptEl = << >>
    /\ a11yOutputEl = << [ tag |-> "text", cls |-> "", text |-> LoadingText,
                           ev |-> 0 ] >>
    /\ inputValue = << >>
    /\ inputDisabled = FALSE
    /\ nextNode = 1
    /\ temporaryInputHistoryIndex = 0
    /\ temporaryInputHistory = << << >> >>
    /\ committedInputHistory = << >>
    /\ log = << >>
    /\ fault = FALSE
    /\ batchLoaded = FALSE
    /\ broken = FALSE
    /\ lastObserved = "none"
    /\ delivered = 0
    /\ keys = << >>
    /\ requests = << >>

\* The listeners are added at the end of the start-up; a disabled input
\* takes no key and submits no form.
Listening == phase = "started" /\ ~inputDisabled

Quiet == [ st |-> "Idle", out |-> << >>, err |-> << >> ]

\* The engine's answers a turn may ask for when it starts in state st with
\* error e: r to take_latest_error, c to continue_evaluating.  An answer
\* the turn does not ask for is fixed.
AskedR(st, e) ==
    IF st = "Errored" /\ e # << >> THEN NotErrored ELSE { "Idle" }

AskedC(st, e, r) ==
    IF st = "Running" \/ (st = "Errored" /\ e # << >> /\ r = "Running")
    THEN Responses
    ELSE { Quiet }

Boot ==
    /\ phase = "loading"
    /\ Becomes(StartUp(Fresh(World), "Idle", Quiet))

BootFailedFetch ==
    /\ phase = "loading"
    /\ Becomes(StartUpFailedFetch(Fresh(World)))

BootWithProgram ==
    /\ phase = "loading"
    /\ \E src \in Sources :
       \E cs \in [ 1..Len(Split(src)) -> LineResponses ] :
           /\ \A i \in DOMAIN cs :
                  ~StartsWithDigit(Split(src)[i]) => cs[i] = Quiet
           /\ \E crun \in Responses :
              \E r \in AskedR(crun.st, crun.err) :
              \E c \in AskedC(crun.st, crun.err, r) :
                  Becomes(StartUpWithProgram(Fresh(World), src, cs, crun, r, c))

TimerFires ==
    /\ timers > 0
    /\ \E r \in AskedR(state, err) :
       \E c \in AskedC(state, err, r) :
           Becomes(handleCurrentState(
                       [ Fresh(World) EXCEPT !.timers = @ - 1 ], r, c))

\* An arrow key in the input.  The key is noted in the log, and in the row
\* of keys when it follows an accepted submission.
KeyArrow ==
    /\ Listening
    /\ \E delta \in { -1, 1 } :
           LET key == IF delta = -1 THEN "ArrowUp" ELSE "ArrowDown"
           IN  Becomes([ HistoryKey(Logged(Fresh(World), "keydown", << >>, key, 0),
                                    delta)
                         EXCEPT !.keys = IF keys # << >> /\ Len(keys) < 4
                                         THEN Append(keys, key) ELSE << >> ])

\* CTRL-C in the input.
KeyCtrlC ==
    /\ Listening
    /\ \E selected \in { s \in BOOLEAN : s => inputValue # << >> } :
           Becomes(OnCtrlC(Fresh(World), selected, "Idle", Quiet))

\* The user edits the input to v and presses Enter.  The submission is noted
\* in the log with the state the engine is in.
SubmitForm ==
    /\ Listening
    /\ \E v \in InputValues :
           /\ Len(committedInputHistory) < MaxLines
           /\ \E c1 \in IF canProcessUserInput(World)
                           /\ ~(canBreak(World) /\ v = BreakEmoji)
                        THEN Responses ELSE { Quiet } :
              \E r \in AskedR(c1.st, c1.err) :
              \E c \in AskedC(c1.st, c1.err, r) :
                  Becomes(OnSubmitInput(
                              HistorySubmit(
                                  [ Logged(Fresh(World), "submit", v, state, 0)
                                    EXCEPT !.inputValue = v ]),
                              c1, r, c))

\* The driver's methods called directly, in whatever state the engine is in.
CallSubmitUserInput ==
    /\ phase # "loading"
    /\ delivered < MaxLines
    /\ \E input \in InputValues :
       \E c1 \in IF canProcessUserInput(World) THEN Responses ELSE { Quiet } :
       \E r \in AskedR(c1.st, c1.err) :
       \E c \in AskedC(c1.st, c1.err, r) :
           Becomes(submitUserInput(Fresh(World), input, c1, r, c))

CallBreakAtCurrentLocation ==
    /\ phase # "loading"
    /\ Becomes(breakAtCurrentLocation(Fresh(World), "Idle", Quiet))

Next ==
    \/ Boot
    \/ BootFailedFetch
    \/ BootWithProgram
    \/ TimerFires
    \/ KeyCtrlC
    \/ SubmitForm

\* The page as it is wired, its user typing, submitting and breaking.
Spec == Init /\ [][Next]_vars

NextDriver ==
    \/ Boot
    \/ BootFailedFetch
    \/ BootWithProgram
    \/ TimerFires
    \/ CallSubmitUserInput
    \/ CallBreakAtCurrentLocation

\* The driver alone, its methods called in any state by a caller that does
\* not ask canProcessUserInput or canBreak first.
SpecDriver == Init /\ [][NextDriver]_vars

-----------------------------------------------------------------------------
\* Loading any program

\* The program texts: every text of at most MaxProgram characters, with
\* digits, letters, spaces and line terminators.
ProgramChars == { "1", "A", SP, NL }

ProgramTexts == UNION { [ 1..n -> ProgramChars ] : n \in 0..MaxProgram }

\* The start-up with ?p= naming a program of any text.
LoadAnyProgram ==
    /\ phase = "loading"
    /\ \E src \in ProgramTexts :
       \E cs \in [ 1..Len(Split(src)) -> LineResponses ] :
           /\ \A i \in DOMAIN cs :
                  ~StartsWithDigit(Split(src)[i]) => cs[i] = Quiet
           /\ \E crun \in Responses :
              \E r \in AskedR(crun.st, crun.err) :
              \E c \in AskedC(crun.st, crun.err, r) :
                  Becomes(StartUpWithProgram(Fresh(World), src, cs, crun, r, c))

NextLoad ==
    \/ LoadAnyProgram
    \/ TimerFires

\* The page started with a program, and the turns it schedules.
SpecLoad == Init /\ [][NextLoad]_vars

-----------------------------------------------------------------------------
\* The input line and its history

\* What the user may have in the input.
HistoryValues == { << >>, << "X" >>, << "Y" >> }

\* The user edits the input.
TypeInput ==
    /\ Listening
    /\ \E v \in HistoryValues \ { inputValue } :
           Becomes([ Fresh(World) EXCEPT !.inputValue = v ])

\* The user presses Enter on the input as it is; the engine evaluates the
\* line at once.  The submission is noted in the log; one that is not
\* empty and is accepted starts a row of keys.
PressEnter ==
    /\ Listening
    /\ delivered < MaxHistory
    /\ LET w == OnSubmitInput(
                    HistorySubmit(Logged(Fresh(World), "submit", inputValue,
                                         state, 0)),
                    Quiet, "Idle", Quiet)
       IN  Becomes([ w EXCEPT !.keys =
                         IF inputValue # << >> /\ ~w.fault
                            /\ w.delivered > delivered
                         THEN << "submit" >> ELSE << >> ])

\* The screen is cleared between two lines.
ClearScreenLater ==
    /\ Listening
    /\ outputEl # << >>
    /\ Becomes(clearScreen(Fresh(World)))

NextHistory ==
    \/ Boot
    \/ TypeInput
    \/ KeyArrow
    \/ PressEnter
    \/ ClearScreenLater

\* The page with a user who types, recalls earlier lines and submits.
SpecHistory == Init /\ [][NextHistory]_vars

-----------------------------------------------------------------------------
\* The console alone

\* What a caller prints, the classes of a span, the prompts it sets, and
\* the kinds of the items it shows: the six of the engine and a seventh.
ConsoleTexts == { << "A" >>, << "B", NL >>, << "C", NL, "D" >> }
SpanClassNames == { "error", "error-context", "warning", "info" }
Prompts == { PromptIdle, << >> }
ItemKinds == Kinds \cup { "Alert" }

\* A caller may go on while it has not thrown and has calls left; its calls
\* so far are in the log.
Calling == ~fault /\ Len(log) < MaxCalls

CallPrint ==
    /\ Calling
    /\ \E text \in ConsoleTexts : Becomes(print(World, Str(text, 0)))

CallPrintSpanWithClass ==
    /\ Calling
    /\ \E text \in ConsoleTexts, className \in SpanClassNames :
           Becomes(printSpanWithClass(World, text, className, 0))

CallSetPrompt ==
    /\ Calling
    /\ \E prompt \in Prompts : Becomes(setPrompt(World, prompt))

CallCommitCurrentPromptToOutput ==
    /\ Calling
    /\ Becomes(commitCurrentPromptToOutput(World, << "X" >>))

CallClearScreen ==
    /\ Calling
    /\ Becomes(clearScreen(World))

\* One pass of showOutput's loop, on an item of any kind; the item is
\* noted in the log before it is shown.
CallShowItem ==
    /\ Calling
    /\ \E kind \in ItemKinds :
           Becomes(ShowItem(Logged(World, "item", << "T" >>, kind, 1),
                            [ kind |-> kind, text |-> << "T" >>, id |-> 1 ]))

NextConsole ==
    \/ CallPrint
    \/ CallPrintSpanWithClass
    \/ CallSetPrompt
    \/ CallCommitCurrentPromptToOutput
    \/ CallClearScreen
    \/ CallShowItem

\* The functions of the console called in any order.
SpecConsole == Init /\ [][NextConsole]_vars

-----------------------------------------------------------------------------
\* Reading the call log of a handler

\* The positions in l of the calls named in ops.
Calls(l, ops) == { j \in DOMAIN l : l[j].op \in ops }

\* The same, among the positions a..b.
CallsIn(l, a, b, ops) == { j \in Calls(l, ops) : a <= j /\ j <= b }

\* A turn is the calls from an entry into handleCurrentState up to the next
\* entry, or up to the end of the handler.
Turns(l) == Calls(l, { "handleCurrentState" })

TurnEnd(l, i) ==
    IF \E j \in Turns(l) : j > i
    THEN (CHOOSE j \in Turns(l) : j > i /\ \A k \in Turns(l) : k > i => j <= k) - 1
    ELSE Len(l)

\* The state turn i read, "none" if it read none.
TurnObs(l, i) ==
    LET g == CallsIn(l, i, TurnEnd(l, i), { "get_state" })
    IN  IF g = { } THEN "none"
        ELSE l[CHOOSE j \in g : \A k \in g : j <= k].st

\* The calls of turn i that set the prompt to the text p.
SetsPrompt(l, i, p) ==
    { j \in CallsIn(l, i, TurnEnd(l, i), { "setPrompt" }) : l[j].arg = p }

Delivering == { "start_evaluating", "provide_input" }
Advancing == Delivering \cup { "continue_evaluating" }

\* The prompt shows the text p, after whatever partial line it took in.
ShowsPrompt(p) == promptEl # << >> /\ promptEl[Len(promptEl)].text = p

\* The prompt lines committed to the output.

PromptResponses(nodes) ==
    Cardinality({ k \in DOMAIN nodes : nodes[k].cls = "prompt-response" })

-----------------------------------------------------------------------------
\* The driver's contract

\* C1: submitUserInput called while the engine is Running or Errored throws;
\* before that it calls nothing of the engine but get_state, it does not
\* touch the prompt and it takes no turn: the handler is the entry, the
\* get_state and the throw, and leaves engine, prompt and timers as they were.
C1_SubmitInWrongStateThrows ==
    [][ \A i \in DOMAIN log' :
            (log'[i].op = "submitUserInput"
                /\ log'[i].st \in { "Running", "Errored" })
            => /\ fault'
               /\ Len(log') = i + 2
               /\ log'[i + 1].op = "get_state"
               /\ log'[i + 2].op = "throw"
               /\ UNCHANGED << state, outq, err, produced, promptEl,
                               a11yOutputEl, outputEl, latestPartialLine,
                               timers, lastObserved, delivered >> ]_vars

C1_Witness ==
    /\ fault
    /\ \E i \in DOMAIN log :
           log[i].op = "submitUserInput" /\ log[i].st = "Running"

\* C2: submitUserInput delivers its input to the engine exactly once: with
\* start_evaluating(input) when the engine is Idle, with provide_input(input)
\* when it is AwaitingInput, never with both and never with the other one.
C2_OneDelivery ==
    \A i \in Calls(log, { "submitUserInput" }) :
        log[i].st \in { "Idle", "AwaitingInput" }
        => LET d == CallsIn(log, i, Len(log), Delivering)
           IN  /\ Cardinality(d) = 1
               /\ \A j \in d :
                      /\ log[j].arg = log[i].arg
                      /\ log[j].op = IF log[i].st = "Idle"
                                     THEN "start_evaluating"
                                     ELSE "provide_input"

C2_Witness ==
    \E i \in Calls(log, { "submitUserInput" }) :
        /\ log[i].st = "AwaitingInput"
        /\ CallsIn(log, i, Len(log), { "provide_input" }) # { }

\* C3: a turn that reads Running calls continue_evaluating once and
\* schedules one turn; a turn that reads Idle or AwaitingInput schedules
\* none; continue_evaluating is called only right after a get_state that
\* answered Running.
C3_RunningTurnContinuesOnce ==
    /\ \A i \in Turns(log) :
           LET e == TurnEnd(log, i)
           IN  /\ TurnObs(log, i) = "Running"
                  => /\ Cardinality(CallsIn(log, i, e, { "continue_evaluating" })) = 1
                     /\ Cardinality(CallsIn(log, i, e, { "setTimeout" })) = 1
               /\ TurnObs(log, i) \in { "Idle", "AwaitingInput" }
                  => CallsIn(log, i, e, { "setTimeout", "continue_evaluating" }) = { }
    /\ \A j \in Calls(log, { "continue_evaluating" }) :
           /\ j > 1
           /\ log[j - 1].op = "get_state"
           /\ log[j - 1].st = "Running"
    /\ timers >= Cardinality(Calls(log, { "setTimeout" }))

C3_Witness ==
    /\ timers > 0
    /\ \E i \in Turns(log) :
           /\ TurnObs(log, i) = "Running"
           /\ CallsIn(log, i, TurnEnd(log, i), { "continue_evaluating" }) # { }

\* C4: a turn that reads AwaitingInput sets the prompt to "? "; from then
\* until submitUserInput or breakAtCurrentLocation is called, no handler
\* calls continue_evaluating, start_evaluating or provide_input, and none
\* schedules a turn.
C4_AwaitingInputWaits ==
    /\ [](/\ \A i \in Turns(log) :
                 TurnObs(log, i) = "AwaitingInput"
                 => /\ SetsPrompt(log, i, PromptInput) # { }
                    /\ CallsIn(log, i, TurnEnd(log, i), Advancing \cup { "setTimeout" }) = { }
          /\ lastObserved = "AwaitingInput"
             => ShowsPrompt(PromptInput))
    /\ [][ (lastObserved = "AwaitingInput"
               /\ Calls(log', { "submitUserInput", "breakAtCurrentLocation" }) = { })
           => /\ Calls(log', Advancing \cup { "setTimeout" }) = { }
              /\ timers' <= timers
              /\ state' = "AwaitingInput"
              /\ lastObserved' = "AwaitingInput" ]_vars

\* A turn is pending while the engine waits for input: the timer will fire
\* before any submission.
C4_Witness ==
    /\ lastObserved = "AwaitingInput"
    /\ timers > 0
    /\ ShowsPrompt(PromptInput)

\* C5: a turn that reads Idle disables the input, and shows no "] " prompt,
\* exactly when a program was loaded with loadAndRunSourceCode and no break
\* has taken since; otherwise it sets the prompt to "] " and the input
\* stays enabled.
C5_IdleTurn ==
    \A i \in Turns(log) :
        TurnObs(log, i) = "Idle"
        => LET e == TurnEnd(log, i)
               disables == CallsIn(log, i, e, { "clearPromptAndDisableInput" }) # { }
               prompts == SetsPrompt(log, i, PromptIdle) # { }
           IN  /\ disables <=> (batchLoaded /\ ~broken)
               /\ disables => (~prompts /\ inputDisabled /\ ~ShowsPrompt(PromptIdle))
               /\ ~disables => (prompts /\ ~inputDisabled /\ ShowsPrompt(PromptIdle))

C5_Witness ==
    /\ batchLoaded
    /\ ~broken
    /\ inputDisabled
    /\ \E i \in Turns(log) : TurnObs(log, i) = "Idle"

\* The other case of C5: a loaded session that broke comes to the "] " prompt.
C5_WitnessBroken ==
    /\ batchLoaded
    /\ broken
    /\ ~inputDisabled
    /\ \E i \in Turns(log) :
           TurnObs(log, i) = "Idle" /\ SetsPrompt(log, i, PromptIdle) # { }

\* Terminal idle: a loaded session that never broke is Idle with its input
\* disabled.
TerminalIdle == batchLoaded /\ ~broken /\ state = "Idle" /\ inputDisabled

\* C6: from terminal idle on, no handler schedules a turn, the input is
\* never enabled again and the "] " prompt is never shown.
C6_TerminalIdleStays ==
    /\ [](TerminalIdle => ~ShowsPrompt(PromptIdle))
    /\ [][ TerminalIdle
           => /\ TerminalIdle'
              /\ Calls(log', { "setTimeout" }) = { }
              /\ timers' <= timers
              /\ \A j \in Calls(log', { "setPrompt" }) : log'[j].arg = << >> ]_vars

\* A turn scheduled earlier is still to come in terminal idle.
C6_Witness == TerminalIdle /\ timers > 0

\* C7: breakAtCurrentLocation called while the engine is Idle changes
\* nothing: the engine gets no break request, no turn is taken, and prompt,
\* output and isFullyInteractive are what they were.
C7_BreakInIdleIsNoOp ==
    [][ \A i \in DOMAIN log' :
            (log'[i].op = "breakAtCurrentLocation" /\ log'[i].st = "Idle")
            => /\ Len(log') = i + 1
               /\ log'[i + 1].op = "get_state"
               /\ ~fault'
               /\ UNCHANGED << state, outq, err, produced, isFullyInteractive,
                               timers, outputEl, latestPartialLine, promptEl,
                               a11yOutputEl, inputDisabled, nextNode,
                               broken, lastObserved >> ]_vars

C7_Witness ==
    /\ phase = "started"
    /\ \E i \in DOMAIN log :
           log[i].op = "breakAtCurrentLocation" /\ log[i].st = "Idle"

\* C8: breakAtCurrentLocation called while the engine is AwaitingInput or
\* Running makes the session fully interactive, calls
\* break_at_current_location once and takes a turn at once; from then on a
\* turn that reads Idle shows the "] " prompt and does not disable the input.
C8_BreakTakes ==
    /\ \A i \in Calls(log, { "breakAtCurrentLocation" }) :
           log[i].st \in { "AwaitingInput", "Running" }
           => LET b == CallsIn(log, i, Len(log), { "break_at_current_location" })
              IN  /\ Cardinality(b) = 1
                  /\ \A j \in b : j < Len(log) /\ log[j + 1].op = "handleCurrentState"
                  /\ broken
    /\ broken
       => /\ isFullyInteractive
          /\ \A i \in Turns(log) :
                 TurnObs(log, i) = "Idle"
                 => /\ SetsPrompt(log, i, PromptIdle) # { }
                    /\ CallsIn(log, i, TurnEnd(log, i),
                               { "clearPromptAndDisableInput" }) = { }

\* A loaded program is broken and its session comes to the "] " prompt.
C8_Witness ==
    /\ batchLoaded
    /\ ~inputDisabled
    /\ ShowsPrompt(PromptIdle)
    /\ \E i \in Calls(log, { "breakAtCurrentLocation" }) :
           /\ log[i].st = "Running"
           /\ CallsIn(log, i, Len(log), { "break_at_current_location" }) # { }

C10_DrainThenAct ==
    /\ \A i \in Turns(log) :
           /\ i < Len(log)
           /\ log[i + 1].op = "take_latest_output"
           /\ LET ids == log[i + 1].arg
                  n == Len(ids)
              IN  /\ i + 1 + n < Len(log)
                  /\ \A k \in 1..n :
                         /\ log[i + 1 + k].op = "print"
                         /\ log[i + 1 + k].id = ids[k]
                  /\ \A k \in 1..(n - 1) : ids[k] < ids[k + 1]
                  /\ log[i + 2 + n].op = "get_state"
                  /\ CallsIn(log, i, i + 1 + n,
                             { "get_state", "setPrompt", "take_latest_error",
                               "continue_evaluating", "setTimeout",
                               "clearPromptAndDisableInput" }) = { }
    /\ outq # << >> => timers > 0

C10_Witness ==
    \E i \in Turns(log) :
        /\ i < Len(log)
        /\ Len(log[i + 1].arg) >= 2
        /\ TurnObs(log, i) = "Running"

-----------------------------------------------------------------------------
\* The output channel

\* The engine events rendered so far, in the order they were rendered: the
\* log region for screen readers gets a copy of every node printed and is
\* never cleared.
Rendered ==
    LET shown == SelectSeq(a11yOutputEl, LAMBDA n : n.ev # 0)
    IN  [ k \in DOMAIN shown |-> shown[k].ev ]

\* C11: whatever load, submit, break and turn happen, an event of the engine
\* is rendered at most once; the events rendered are events the engine
\* produced, and none of them is still in the queue.
C11_RenderedAtMostOnce ==
    /\ \A j, k \in DOMAIN Rendered : j # k => Rendered[j] # Rendered[k]
    /\ \A k \in DOMAIN Rendered :
           /\ Rendered[k] \in 1..produced
           /\ \A q \in DOMAIN outq : outq[q].id # Rendered[k]

\* Events were rendered by an earlier handler, and a later turn found the
\* queue empty.
C11_Witness ==
    /\ Len(Rendered) >= 2
    /\ Calls(log, { "print" }) = { }
    /\ \E i \in Turns(log) : i < Len(log) /\ log[i + 1].arg = << >>

-----------------------------------------------------------------------------
\* Errors of the engine

\* The turns that read Errored and threw, and those that went on.
ErroredTurns(l) == { i \in Turns(l) : TurnObs(l, i) = "Errored" }

ThrowingTurns(l) ==
    { i \in ErroredTurns(l) : CallsIn(l, i, TurnEnd(l, i), { "throw" }) # { } }

\* C12: a turn that reads Errored and gets no error from take_latest_error
\* throws at once: it renders nothing for the error, leaves the prompt as it
\* is, and no turn follows or is scheduled.  The turn is its entry, the
\* drained output, get_state, take_latest_error and the throw.
C12_AbsentErrorThrows ==
    /\ [](\A i \in ErroredTurns(log) :
              LET e == TurnEnd(log, i)
                  n == Len(log[i + 1].arg)
              IN  (err = << >> /\ state = "Errored" /\ e = Len(log))
                  => /\ fault
                     /\ Len(log) = i + n + 4
                     /\ log[i + n + 3].op = "take_latest_error"
                     /\ log[i + n + 4].op = "throw"
                     /\ CallsIn(log, i, e, { "setPrompt", "setTimeout",
                                             "clearPromptAndDisableInput",
                                             "continue_evaluating" }) = { }
                     /\ \A j \in CallsIn(log, i, e, { "print" }) : log[j].id # 0
                     /\ TextContent(promptEl) = log[i].arg)
    /\ [][ ThrowingTurns(log') # { }
           => /\ fault'
              /\ timers' <= timers
              /\ state' = "Errored" ]_vars

C12_Witness ==
    /\ fault
    /\ phase = "started"
    /\ ThrowingTurns(log) # { }

\* C13: a turn that reads Errored and gets the error prints each of its
\* lines with a line terminator, the first classed error and the others
\* error-context, and then reads the state again in the same call; with the
\* engine out of Errored, the call ends with a prompt set, the input
\* disabled or a turn scheduled; the engine is in Errored with an error to
\* show only while a turn is scheduled.
C13_ErrorRenderedThenReread ==
    /\ \A i \in ErroredTurns(log) \ ThrowingTurns(log) :
           \E j \in CallsIn(log, i, TurnEnd(log, i), { "take_latest_error" }) :
           \E text \in ErrorTexts :
               LET lines == Split(text)
                   n == Len(lines)
               IN  /\ j + n + 1 <= Len(log)
                   /\ \A k \in 1..n :
                          /\ log[j + k].op = "print"
                          /\ log[j + k].arg = lines[k] \o << NL >>
                          /\ log[j + k].st = IF k = 1 THEN "error"
                                             ELSE "error-context"
                   /\ log[j + n + 1].op = "handleCurrentState"
                   /\ TurnEnd(log, i) = j + n
                   /\ TurnObs(log, j + n + 1) \in NotErrored
                   /\ CallsIn(log, j + n + 1, TurnEnd(log, j + n + 1),
                              { "setPrompt", "setTimeout" }) # { }
    /\ (state = "Errored" /\ err # << >>) => timers > 0

C13_Witness ==
    /\ ~fault
    /\ \E i \in ErroredTurns(log) :
           /\ Cardinality(CallsIn(log, i, TurnEnd(log, i), { "print" })) >= 2
           /\ i < TurnEnd(log, i)
           /\ TurnEnd(log, i) < Len(log)

-----------------------------------------------------------------------------
\* Loading a program

\* The entry into loadAndRunSourceCode in l, 0 if there is none, and the
\* text it was given.
LoadAt(l) ==
    IF Calls(l, { "loadAndRunSourceCode" }) = { } THEN 0
    ELSE CHOOSE i \in Calls(l, { "loadAndRunSourceCode" }) : TRUE

\* What the engine was given to evaluate from position i on, in order.
Fed(l, i) ==
    LET calls == SelectSeq(SubSeq(l, i + 1, Len(l)),
                           LAMBDA x : x.op = "start_evaluating")
    IN  [ k \in DOMAIN calls |-> calls[k].arg ]

\* C14: whatever the program text, a line that does not start with a
\* decimal digit, a blank line or a line with a space before its number
\* included, is never given to start_evaluating: all that is evaluated
\* before the final RUN are lines of the text that start with a digit.
C14_OnlyNumberedLinesReachEngine ==
    LoadAt(log) # 0
    => LET lines == Split(log[LoadAt(log)].arg)
           fed == Fed(log, LoadAt(log))
       IN  /\ \A k \in 1..(Len(fed) - 1) :
                  /\ StartsWithDigit(fed[k])
                  /\ \E n \in DOMAIN lines : lines[n] = fed[k]
           /\ \A n \in DOMAIN lines :
                  ~StartsWithDigit(lines[n])
                  => \A k \in 1..(Len(fed) - 1) : fed[k] # lines[n]

\* A text with a numbered line, and a line with a space before its number.
C14_Witness ==
    /\ LoadAt(log) # 0
    /\ log[LoadAt(log)].arg = << "1", NL, SP, "1" >>
    /\ Fed(log, LoadAt(log)) = << << "1" >>, RunCommand >>

\* C15: loadAndRunSourceCode gives the engine every line that starts with a
\* decimal digit, once and in the order of the text, and then RUN, once, as
\* its last call of the engine, whatever the lines were and also when none
\* is numbered.
C15_NumberedLinesThenRun ==
    LoadAt(log) # 0
    => LET i == LoadAt(log)
           first == IF Turns(log) = { } THEN Len(log) + 1
                    ELSE CHOOSE t \in Turns(log) : \A u \in Turns(log) : t <= u
       IN  /\ Fed(log, i)
                = SelectSeq(Split(log[i].arg), StartsWithDigit) \o << RunCommand >>
           /\ first > i + 1
           /\ log[first - 1].op = "start_evaluating"
           /\ log[first - 1].arg = RunCommand
           /\ \A j \in (i + 1)..(first - 1) :
                  log[j].op \in { "start_evaluating", "console.warn" }

\* Two different numbered lines were loaded in their order.
C15_Witness ==
    /\ LoadAt(log) # 0
    /\ Fed(log, LoadAt(log)) = << << "1" >>, << "1", "A" >>, RunCommand >>

\* The other case of C15: no line is numbered and RUN is all the engine gets.
C15_WitnessNoLine ==
    /\ LoadAt(log) # 0
    /\ log[LoadAt(log)].arg = << "A", NL, SP >>
    /\ Fed(log, LoadAt(log)) = << RunCommand >>

-----------------------------------------------------------------------------
\* The prompt after a submission

\* The calls of submitUserInput that met the engine Idle or AwaitingInput.
ValidSubmits(l) ==
    { i \in Calls(l, { "submitUserInput" }) : l[i].st \in { "Idle", "AwaitingInput" } }

\* After a valid submission setPrompt("") is called and the turn is taken
\* next, in the same call.
SubmitThenTurn(l, i) ==
    \E j \in CallsIn(l, i, Len(l), { "setPrompt" }) :
        /\ l[j].arg = << >>
        /\ CallsIn(l, i, j - 1, { "setPrompt", "handleCurrentState" }) = { }
        /\ j < Len(l)
        /\ l[j + 1].op = "handleCurrentState"

\* C16: after a valid submission the prompt is cleared, its text being the
\* empty string when the turn that follows begins, and that turn is taken
\* before submitUserInput returns.
C16_PromptEmptyAtTurn ==
    \A i \in ValidSubmits(log) :
        /\ SubmitThenTurn(log, i)
        /\ \A t \in Turns(log) :
               (t > i /\ CallsIn(log, i, t, { "handleCurrentState" }) = { t })
               => log[t].arg = << >>

-----------------------------------------------------------------------------
\* The console

\* The step made the call op as its latest.
Called(op) == Len(log') > Len(log) /\ log'[Len(log')].op = op

\* The node the step appended to the output, if it appended one.
Appended == outputEl'[Len(outputEl')]

\* C17: showOutput renders an item by its kind.  Print: the text as it is,
\* nothing added, no class.  Trace: the text and one space, class info.
\* Break, Warning, Reenter and ExtraIgnored: the text and a line terminator,
\* class warning.  Any other kind: a fault, and nothing printed.
C17_ShownByKind ==
    [][ (Len(log') > Len(log) /\ log'[Len(log) + 1].op = "item")
        => LET item == log'[Len(log) + 1]
               call == log'[Len(log) + 2]
           IN  /\ Len(log') = Len(log) + 2
               /\ item.st \in Kinds
                  => /\ ~fault'
                     /\ call.op = "print"
                     /\ outputEl' = Append(outputEl, Appended)
                     /\ Appended.text = call.arg
                     /\ Appended.cls = call.st
               /\ item.st = "Print"
                  => /\ call.arg = item.arg
                     /\ call.st = ""
                     /\ Appended.tag = "text"
               /\ item.st = "Trace"
                  => /\ call.arg = item.arg \o << SP >>
                     /\ call.st = "info"
                     /\ Appended.tag = "span"
               /\ item.st \in { "Break", "Warning", "Reenter", "ExtraIgnored" }
                  => /\ call.arg = item.arg \o << NL >>
                     /\ call.st = "warning"
                     /\ Appended.tag = "span"
               /\ item.st \notin Kinds
                  => /\ fault'
                     /\ call.op = "throw"
                     /\ outputEl' = outputEl ]_vars

C17_Witness ==
    \E m \in Calls(log, { "item" }) :
        /\ log[m].st = "Trace"
        /\ m < Len(log)
        /\ log[m + 1].op = "print"
        /\ log[m + 1].st = "info"

\* The other case of C17: a kind outside the six.
C17_WitnessFault ==
    /\ fault
    /\ \E m \in Calls(log, { "item" }) : log[m].st = "Alert"

\* C18: print and printSpanWithClass always append the text to the output;
\* a text that ends with a line terminator empties the partial-line buffer,
\* any other text becomes the last fragment of the buffer; the class makes
\* no difference to this.
C18_PrintTracksPartialLine ==
    [][ Called("print")
        => LET call == log'[Len(log')]
           IN  /\ outputEl' = Append(outputEl, Appended)
               /\ Appended.text = call.arg
               /\ Appended.cls = call.st
               /\ latestPartialLine'
                    = IF EndsWithNL(call.arg) THEN << >>
                      ELSE Append(latestPartialLine, Appended)
               /\ UNCHANGED << promptEl, inputValue, inputDisabled >> ]_vars

\* A span that ends a line on which a fragment was open.
C18_Witness ==
    /\ latestPartialLine = << >>
    /\ \E m \in Calls(log, { "print" }) :
           /\ m > 1
           /\ m = Len(log)
           /\ log[m].st = "error"
           /\ EndsWithNL(log[m].arg)
           /\ log[m - 1].op = "print"
           /\ ~EndsWithNL(log[m - 1].arg)

\* C19: setPrompt(p) replaces the prompt: its text is then the fragments of
\* the partial-line buffer, in order, followed by p; those fragments are no
\* longer in the output, whose other nodes stay; the buffer is empty.
C19_SetPromptReplaces ==
    [][ Called("setPrompt")
        => LET p == log'[Len(log')].arg
           IN  /\ TextContent(promptEl') = TextContent(latestPartialLine) \o p
               /\ Len(promptEl') = Len(latestPartialLine) + 1
               /\ \A k \in DOMAIN latestPartialLine :
                      /\ promptEl'[k] = latestPartialLine[k]
                      /\ \A n \in DOMAIN outputEl' :
                             outputEl'[n].nid # latestPartialLine[k].nid
               /\ outputEl' = Without(outputEl, latestPartialLine)
               /\ latestPartialLine' = << >> ]_vars

\* A prompt was set, a fragment printed, and the prompt set again.
C19_Witness ==
    /\ Len(log) = 3
    /\ log[1].op = "setPrompt" /\ log[1].arg = PromptIdle
    /\ log[2].op = "print" /\ log[2].arg = << "A" >>
    /\ log[3].op = "setPrompt" /\ log[3].arg = PromptIdle
    /\ TextContent(promptEl) = << "A" >> \o PromptIdle

\* The calls print(a), print(b + line terminator), setPrompt(p) were made
\* in a row, a not ending with a line terminator, as the calls m, m+1, m+2.
PrintPrintPrompt(l, m) ==
    /\ m + 2 <= Len(l)
    /\ l[m].op = "print" /\ ~EndsWithNL(l[m].arg)
    /\ l[m + 1].op = "print" /\ EndsWithNL(l[m + 1].arg)
    /\ l[m + 2].op = "setPrompt"

\* C20: fragments printed before a print that ends the line are committed
\* and no later prompt takes them: after print(a), print(b + line
\* terminator) and setPrompt(p), the output ends with a followed by b and
\* the terminator, the prompt is p and nothing else, and no fragment is open.
C20_CommittedLineStaysInOutput ==
    \A m \in DOMAIN log :
        (PrintPrintPrompt(log, m) /\ m + 2 = Len(log))
        => /\ Len(promptEl) = 1
           /\ TextContent(promptEl) = log[m + 2].arg
           /\ latestPartialLine = << >>
           /\ Len(outputEl) >= 2
           /\ outputEl[Len(outputEl) - 1].text = log[m].arg
           /\ outputEl[Len(outputEl)].text = log[m + 1].arg

C20_Witness ==
    /\ PrintPrintPrompt(log, 1)
    /\ Len(log) = 3
    /\ log[3].arg = PromptIdle
    /\ TextContent(promptEl) = PromptIdle

-----------------------------------------------------------------------------
\* The open line

\* The text after the last line terminator of t.
RECURSIVE AfterLastNL(_)
AfterLastNL(t) ==
    IF \A i \in 1..Len(t) : t[i] # NL THEN t
    ELSE AfterLastNL(Tail(t))

\* The text of the last, unfinished line of the nodes: a div is a block and
\* ends the line before it and its own.
RECURSIVE OpenLine(_)
OpenLine(nodes) ==
    IF nodes = << >> THEN << >>
    ELSE LET n == nodes[Len(nodes)]
         IN  IF n.tag = "div" THEN << >>
             ELSE IF \E i \in 1..Len(n.text) : n.text[i] = NL
                  THEN AfterLastNL(n.text)
                  ELSE OpenLine(SubSeq(nodes, 1, Len(nodes) - 1)) \o n.text

\* What the console put in the output region: all but the text the page
\* comes with.
PrintedOutput == SelectSeq(outputEl, LAMBDA n : n.nid # 0)

\* C21: after any calls of print, printSpanWithClass, setPrompt,
\* commitCurrentPromptToOutput and clearScreen, the fragments of the
\* partial-line buffer, put together, are the text the output region shows
\* after its last line terminator.
C21_BufferIsOpenLine ==
    ~fault => TextContent(latestPartialLine) = OpenLine(PrintedOutput)

\* C22: commitCurrentPromptToOutput(suffix) appends one prompt-response
\* line to the output, its text the text of the prompt followed by suffix,
\* and leaves the prompt, the partial-line buffer, the input and the input
\* history as they are.
C22_CommitAppendsOneLine ==
    [][ Called("commitCurrentPromptToOutput")
        => /\ outputEl' = Append(outputEl, Appended)
           /\ Appended.tag = "div"
           /\ Appended.cls = "prompt-response"
           /\ Appended.text = TextContent(promptEl) \o log'[Len(log')].arg
           /\ UNCHANGED << promptEl, latestPartialLine, inputValue,
                           inputDisabled, committedInputHistory,
                           temporaryInputHistory,
                           temporaryInputHistoryIndex >> ]_vars

\* A prompt that took a fragment in is committed.
C22_Witness ==
    /\ Len(log) = 3
    /\ log[1].op = "print" /\ log[1].arg = << "A" >>
    /\ log[2].op = "setPrompt" /\ log[2].arg = PromptIdle
    /\ log[3].op = "commitCurrentPromptToOutput"
    /\ outputEl[Len(outputEl)].text = << "A" >> \o PromptIdle \o << "X" >>
    /\ Len(promptEl) = 2

\* The step is a handler that made the call op and no other.
Alone(op) == Len(log') = 1 /\ log'[1].op = op

\* C23: clearScreen discards all committed output and leaves the input
\* history (committed entries, scratch entries and cursor index), the prompt
\* and the edit buffer as they were.
C23_ClearScreenKeepsInput ==
    [][ Alone("clearScreen")
        => /\ outputEl' = << >>
           /\ UNCHANGED << committedInputHistory, temporaryInputHistory,
                           temporaryInputHistoryIndex, promptEl, inputValue >> ]_vars

\* The screen was cleared with a line in the history, a recalled line in the
\* edit buffer and a prompt showing.
C23_Witness ==
    /\ Len(log) = 1
    /\ log[1].op = "clearScreen"
    /\ outputEl = << >>
    /\ committedInputHistory # << >>
    /\ temporaryInputHistoryIndex = 0
    /\ inputValue # << >>
    /\ ShowsPrompt(PromptIdle)

\* The prompt strings the driver sets.
PromptStrings == { PromptIdle, PromptInput }

\* C24: after clearPromptAndDisableInput the edit buffer is empty, the input
\* is disabled and the prompt carries no prompt string.
C24_DisabledAndCleared ==
    \A j \in Calls(log, { "clearPromptAndDisableInput" }) :
        (\A k \in (j + 1)..Len(log) :
             \/ log[k].op = "clearInput"
             \/ log[k].op = "setPrompt" /\ log[k].arg = << >>)
        => /\ inputValue = << >>
           /\ inputDisabled
           /\ ShowsPrompt(<< >>)
           /\ \A k \in DOMAIN promptEl : promptEl[k].text \notin PromptStrings

\* A loaded program came to its end and the input was shut.
C24_Witness ==
    /\ Calls(log, { "clearPromptAndDisableInput" }) # { }
    /\ log[Len(log)].op = "clearInput"
    /\ inputDisabled
    /\ inputValue = << >>
    /\ ShowsPrompt(<< >>)

\* The arrow key of the step, as the index moves for it.
KeyDelta == IF log'[1].st = "ArrowUp" THEN -1 ELSE 1

\* The scratch entries once the input is saved at the cursor.
Snapshot ==
    [ temporaryInputHistory
        EXCEPT ![temporaryInputHistoryIndex + 1] = inputValue ]

\* The index the key of the step asks for is one of the scratch entries.
InBounds ==
    /\ temporaryInputHistoryIndex + KeyDelta >= 0
    /\ temporaryInputHistoryIndex + KeyDelta < Len(temporaryInputHistory)

\* C25: an up or down key within bounds saves the edit buffer into the
\* scratch entry at the cursor, then moves the cursor by one (back for up,
\* forward for down) and puts the scratch entry found there into the edit
\* buffer.  No arrow key changes the committed history or the number of
\* scratch entries.
C25_NavigationInBounds ==
    [][ Alone("keydown")
        => /\ UNCHANGED committedInputHistory
           /\ Len(temporaryInputHistory') = Len(temporaryInputHistory)
           /\ InBounds
              => /\ temporaryInputHistory' = Snapshot
                 /\ temporaryInputHistoryIndex' =
                        temporaryInputHistoryIndex + KeyDelta
                 /\ inputValue' = Snapshot[temporaryInputHistoryIndex' + 1] ]_vars

\* A line was typed and left with the up key: it is kept in the last scratch
\* entry and the line before is in the edit buffer.
C25_Witness ==
    /\ Len(log) = 1
    /\ log[1].op = "keydown"
    /\ log[1].st = "ArrowUp"
    /\ temporaryInputHistoryIndex = Len(temporaryInputHistory) - 2
    /\ temporaryInputHistory[Len(temporaryInputHistory)] # << >>
    /\ inputValue = committedInputHistory[Len(committedInputHistory)]
    /\ inputValue # temporaryInputHistory[Len(temporaryInputHistory)]

\* C26: an up key at index 0 and a down key at the last scratch entry leave
\* the cursor and the edit buffer as they were; the cursor does not go round.
C26_NavigationOutOfBounds ==
    [][ (Alone("keydown") /\ ~InBounds)
        => UNCHANGED << temporaryInputHistoryIndex, inputValue,
                        committedInputHistory >> ]_vars

\* The down key right after a submission, at the last scratch entry.
C26_Witness ==
    /\ keys = << "submit", "ArrowDown" >>
    /\ temporaryInputHistoryIndex = Len(temporaryInputHistory) - 1
    /\ inputValue = << >>

\* The step is a submission of the input, empty or not.
Submits == log' # << >> /\ log'[1].op = "submit" /\ log'[1].arg = inputValue

\* C27: submitting a line that is not empty adds it at the end of the
\* committed history, makes the scratch entries the committed history and
\* one empty entry, and puts the cursor on that last entry.
C27_SubmitRecords ==
    [][ (Submits /\ inputValue # << >>)
        => /\ committedInputHistory' = Append(committedInputHistory, inputValue)
           /\ temporaryInputHistory' = Append(committedInputHistory', << >>)
           /\ temporaryInputHistoryIndex' = Len(temporaryInputHistory') - 1 ]_vars

\* A second line was submitted.
C27_Witness ==
    /\ log # << >>
    /\ log[1].op = "submit"
    /\ log[1].arg # << >>
    /\ Len(committedInputHistory) = 2
    /\ committedInputHistory[2] = log[1].arg
    /\ temporaryInputHistory = Append(committedInputHistory, << >>)
    /\ temporaryInputHistoryIndex = 2

\* C28: submitting an empty line leaves the committed history, the scratch
\* entries and the cursor as they were, and the callback is still called.
C28_EmptySubmitKeepsHistory ==
    [][ (Submits /\ inputValue = << >>)
        => /\ UNCHANGED << committedInputHistory, temporaryInputHistory,
                           temporaryInputHistoryIndex >>
           /\ Len(log') > 1
           /\ log'[2].op = "get_state" ]_vars

\* An empty line was submitted with the cursor on the first recalled entry.
C28_Witness ==
    /\ Len(log) > 1
    /\ log[1].op = "submit"
    /\ log[1].arg = << >>
    /\ log[2].op = "get_state"
    /\ committedInputHistory # << >>
    /\ temporaryInputHistoryIndex = 0

\* C29: right after a line that is not empty is submitted and accepted, the
\* edit buffer is empty; up, up, down then leave in the edit buffer the last
\* committed entry when the history has two entries or more.  With one
\* entry the second up is ignored and the down brings back the empty edit
\* buffer.
C29_UpUpDown ==
    /\ keys = << "submit" >> => inputValue = << >>
    /\ (keys = << "submit", "ArrowUp", "ArrowUp" >>
            /\ Len(committedInputHistory) = 1)
       => /\ temporaryInputHistoryIndex = 0
          /\ inputValue = committedInputHistory[1]
    /\ keys = << "submit", "ArrowUp", "ArrowUp", "ArrowDown" >>
       => /\ Len(committedInputHistory) >= 2
             => inputValue = committedInputHistory[Len(committedInputHistory)]
          /\ Len(committedInputHistory) = 1 => inputValue = << >>

\* Up, up, down after the second line.
C29_Witness ==
    /\ keys = << "submit", "ArrowUp", "ArrowUp", "ArrowDown" >>
    /\ Len(committedInputHistory) = 2
    /\ inputValue = committedInputHistory[2]
    /\ temporaryInputHistoryIndex = 1

\* Up, up, down after the first line.
C29_WitnessOneEntry ==
    /\ keys = << "submit", "ArrowUp", "ArrowUp", "ArrowDown" >>
    /\ Len(committedInputHistory) = 1
    /\ inputValue = << >>
    /\ temporaryInputHistoryIndex = 1

\* The output holds a line of the class "error".
DiagnosticShown ==
    \E k \in DOMAIN outputEl :
        outputEl[k].cls = "error" /\ outputEl[k].text = FailedText

\* C30: when the program's source text cannot be fetched, the failure is
\* printed as a line of the class "error" and the session goes on: the "] "
\* prompt shows and submitted lines are taken.
C30_FailedLoadStaysUsable ==
    phase = "failed"
    => /\ DiagnosticShown
       /\ ShowsPrompt(PromptIdle)
       /\ Listening

\* The calls into the engine.
EngineOps ==
    { "randomize", "get_state", "start_evaluating", "continue_evaluating",
      "provide_input", "break_at_current_location", "take_latest_output",
      "take_latest_error" }

\* C31: the engine is seeded once in a session, when the driver is
\* constructed and before any other call into the engine; no load, submit,
\* break or turn seeds it again.
C31_SeededOnceAtConstruction ==
    /\ [](phase = "loading" => (seeds = 0 /\ Calls(log, EngineOps) = { }))
    /\ [](phase # "loading" => seeds = 1)
    /\ [](\A j \in Calls(log, { "randomize" }) :
              /\ j = 1
              /\ Cardinality(Calls(log, { "randomize" })) = 1)
    /\ [][ seeds' # seeds
           => /\ phase = "loading"
              /\ log' # << >>
              /\ log'[1].op = "randomize" ]_vars

\* A program was loaded and run, a line was submitted, and the engine has
\* its one seed.
C31_Witness ==
    /\ seeds = 1
    /\ batchLoaded
    /\ delivered > 0
    /\ Calls(log, { "submitUserInput" }) # { }
    /\ Calls(log, { "randomize" }) = { }

\* The step is the submission of a line that is not the break emoji while
\* the engine is Idle or AwaitingInput.
SubmitsLine ==
    /\ log' # << >>
    /\ log'[1].op = "submit"
    /\ log'[1].arg # BreakEmoji
    /\ state \in { "Idle", "AwaitingInput" }

\* The call by which submitUserInput delivers a line in the state st.
DeliveryOp(st) == IF st = "Idle" THEN "start_evaluating" ELSE "provide_input"

C33_OneScheduledTurn == timers <= 1

\* C34: when a submitted line is given to the engine by provide_input, the
\* output the engine queued before it began to await the input has been
\* drained and displayed, and the "? " prompt is showing; so too when the
\* line is submitted between a continue_evaluating and the turn it scheduled.
\* The callback calls nothing that changes the queue or the prompt before
\* provide_input, so both are read where the step starts.
C34_InputAfterOutputAndPrompt ==
    [][ (/\ log' # << >>
         /\ log'[1].op = "submit"
         /\ Calls(log', { "provide_input" }) # { })
        => /\ outq = << >>
           /\ ShowsPrompt(PromptInput) ]_vars

\* The text sub is found in the text t.
Contains(t, sub) ==
    \E i \in 0..(Len(t) - Len(sub)) : SubSeq(t, i + 1, i + Len(sub)) = sub

\* What the page displays: the output region and the prompt line.
Display == outputEl \o promptEl

\* The engine event with the identity ev is on display: its node is in the
\* output or in the prompt, or its text went into a prompt line that was
\* committed to the output.
OnDisplay(ev, text) ==
    \/ \E k \in DOMAIN Display : Display[k].ev = ev
    \/ /\ text # << >>
       /\ \E k \in DOMAIN outputEl :
              /\ outputEl[k].cls = "prompt-response"
              /\ Contains(outputEl[k].text, text)

\* C35: but for clearScreen, which the page calls before any program output,
\* text printed by the program is never taken off the display: every
\* rendered event is in the output or in the prompt, also after a break
\* with a partial line open and the prompt set after it.
C35_PrintedTextStays ==
    \A k \in DOMAIN a11yOutputEl :
        a11yOutputEl[k].ev # 0
        => OnDisplay(a11yOutputEl[k].ev, a11yOutputEl[k].text)

\* C36: a value is added to the committed history only by a submission that
\* is accepted and given to the engine by start_evaluating or provide_input;
\* a line submitted while the engine is Running or Errored, and the break
\* emoji that breaks the program, are not recorded.
C36_OnlyDeliveredLinesRecorded ==
    [][ committedInputHistory' # committedInputHistory
        => \E i \in Calls(log', Delivering) :
               log'[i].arg = committedInputHistory'[Len(committedInputHistory')] ]_vars

\* C37: in every state the cursor is the index of a scratch entry, there is
\* one scratch entry more than committed entries, and no committed entry is
\* the empty string; the committed history changes only by one entry being
\* added at its end.
C37_HistoryInvariant ==
    /\ [](/\ 0 <= temporaryInputHistoryIndex
          /\ temporaryInputHistoryIndex < Len(temporaryInputHistory)
          /\ Len(temporaryInputHistory) = Len(committedInputHistory) + 1
          /\ \A k \in DOMAIN committedInputHistory :
                 committedInputHistory[k] # << >>)
    /\ [][ \/ UNCHANGED committedInputHistory
           \/ \E v \in HistoryValues :
                  committedInputHistory' = Append(committedInputHistory, v) ]_vars

\* Two lines are in the history, the cursor is on the first, and the line
\* that was being typed is kept in the last scratch entry.
C37_Witness ==
    /\ Len(committedInputHistory) = 2
    /\ temporaryInputHistoryIndex = 0
    /\ temporaryInputHistory[3] # << >>
    /\ temporaryInputHistory[1] # committedInputHistory[1]

\* C38: the driver calls start_evaluating only when the engine is Idle: for
\* the lines of a loaded program and the RUN after them as for a submitted
\* line.
C38_StartEvaluatingOnlyWhenIdle ==
    \A i \in Calls(log, { "start_evaluating" }) : log[i].st = "Idle"

\* C39: every text that print or printSpanWithClass appends to the output is
\* appended to the log for screen readers as well, with the same text, be
\* it a plain string or a span with a class.
C39_A11yLogHasSameText ==
    [][ Called("print")
        => /\ Appended.text = log'[Len(log')].arg
           /\ Len(a11yOutputEl') = Len(a11yOutputEl) + 1
           /\ a11yOutputEl'[Len(a11yOutputEl')].text = Appended.text ]_vars

-----------------------------------------------------------------------------
\* The editor extension (abasic-lsp/ts/extension.ts)

\* The delay of the retry, in milliseconds.
RetryDelay == 1000

\* The error codes a connection attempt may fail with.
Codes == { "ECONNREFUSED", "ECONNRESET", "ETIMEDOUT" }

\* resolve(v) and reject(e) act on a pending promise only.
Settle(p, outcome) == IF p = "pending" THEN outcome ELSE p

\* One call of connectToLanguageServer by the client and the calls it makes
\* of itself: chain holds the promise of each call, the promise of a call
\* that retried "following" the promise of the next; socket, listeners and
\* timer are those of the latest call (timer: the milliseconds left, -1
\* when none is set); stream is the call whose socket the promise was
\* fulfilled with.
NoRequest ==
    [ chain |-> << >>, socket |-> "none", listeners |-> { }, timer |-> -1,
      stream |-> 0 ]

\* new Promise(...): a socket is opened and listens once for "connect" and
\* once for "error".
connectToLanguageServer(r) ==
    [ r EXCEPT !.chain = Append(@, "pending"),
               !.socket = "connecting",
               !.listeners = { "connect", "error" } ]

\* socket.once("connect", ...)
OnConnect(r) ==
    LET n == Len(r.chain)
    IN  [ r EXCEPT !.socket = "connected",
                   !.listeners = { },
                   !.chain[n] = Settle(@, "fulfilled"),
                   !.stream = IF r.chain[n] = "pending" THEN n ELSE @ ]

\* The "error" listener retrying whatever the code of the error.
OnError_RetriesAll(r, code) ==
    [ r EXCEPT !.socket = code,
               !.listeners = { },
               !.timer = RetryDelay ]

\* socket.once("error", ...)
OnError(r, code) ==
    IF code = "ECONNREFUSED"
    THEN [ r EXCEPT !.socket = code,
                    !.listeners = { },
                    !.timer = RetryDelay ]
    ELSE [ r EXCEPT !.socket = code,
                    !.listeners = @ \ { "error" },
                    !.chain[Len(r.chain)] = Settle(@, "rejected") ]

\* setTimeout(() => { resolve(connectToLanguageServer()); }, 1000)
OnRetryTimeout(r) ==
    connectToLanguageServer(
        [ r EXCEPT !.timer = -1,
                   !.chain[Len(r.chain)] = Settle(@, "following") ])

\* The promise the client holds is that of the first call; it follows the
\* chain to the promise of the latest call.
Outcome(r) == IF r.chain = << >> THEN "none" ELSE r.chain[Len(r.chain)]

\* The client asks for a connection.
ClientConnects ==
    /\ Len(requests) < MaxConnections
    /\ requests' = Append(requests, connectToLanguageServer(NoRequest))
    /\ UNCHANGED pageVars

\* The server accepts the connection.
SocketConnects ==
    /\ \E q \in DOMAIN requests :
           /\ requests[q].socket = "connecting"
           /\ "connect" \in requests[q].listeners
           /\ requests' = [ requests EXCEPT ![q] = OnConnect(@) ]
    /\ UNCHANGED pageVars

\* The attempt fails.
SocketFails ==
    /\ \E q \in DOMAIN requests :
       \E code \in Codes :
           /\ requests[q].socket = "connecting"
           /\ "error" \in requests[q].listeners
           /\ requests' = [ requests EXCEPT ![q] = OnError(@, code) ]
    /\ UNCHANGED pageVars

\* Half the delay goes by for every timer that is not due.
TimePasses ==
    /\ \E q \in DOMAIN requests : requests[q].timer > 0
    /\ requests' =
           [ q \in DOMAIN requests |->
               [ requests[q] EXCEPT !.timer =
                     IF @ > 0 THEN @ - RetryDelay \div 2 ELSE @ ] ]
    /\ UNCHANGED pageVars

\* A timer that is due calls back.
RetryTimerFires ==
    /\ \E q \in DOMAIN requests :
           /\ requests[q].timer = 0
           /\ Len(requests[q].chain) < MaxAttempts
           /\ requests' = [ requests EXCEPT ![q] = OnRetryTimeout(@) ]
    /\ UNCHANGED pageVars

NextLsp ==
    \/ ClientConnects
    \/ SocketConnects
    \/ SocketFails
    \/ TimePasses
    \/ RetryTimerFires

\* The extension's client connecting to the language server.
SpecLsp == Init /\ [][NextLsp]_vars

\* The promises of the calls before the latest all follow the next call.
AllFollowing(r) ==
    \A k \in 1..(Len(r.chain) - 1) : r.chain[k] = "following"

\* C40: connectToLanguageServer retries after a delay of one second every
\* time an attempt fails with ECONNREFUSED, however many attempts were made,
\* and its promise is fulfilled with the stream of the first attempt that
\* connects; on any other error the promise is rejected and no retry is
\* scheduled; the promise settles at most once.
C40_RetryUntilConnected ==
    /\ [](\A q \in DOMAIN requests :
              LET r == requests[q]
              IN  /\ AllFollowing(r)
                  /\ (r.socket = "ECONNREFUSED")
                         <=> (r.timer >= 0 /\ Outcome(r) = "pending")
                  /\ (r.socket = "connected")
                         <=> (Outcome(r) = "fulfilled" /\ r.stream = Len(r.chain))
                  /\ (r.socket \in Codes \ { "ECONNREFUSED" })
                         <=> Outcome(r) = "rejected"
                  /\ (Outcome(r) \in { "fulfilled", "rejected" }) => r.timer = -1
                  /\ (r.socket = "connecting") => Outcome(r) = "pending")
    /\ [][ \A q \in DOMAIN requests :
               LET r == requests[q]
                   s == requests'[q]
               IN  /\ (r.socket = "connecting" /\ s.socket = "ECONNREFUSED")
                          => s.timer = RetryDelay
                   /\ (Len(s.chain) > Len(r.chain))
                          => (/\ r.socket = "ECONNREFUSED"
                              /\ r.timer = 0
                              /\ Len(s.chain) = Len(r.chain) + 1
                              /\ s.socket = "connecting")
                   /\ (Outcome(r) \in { "fulfilled", "rejected" }) => s = r
                   /\ \A k \in DOMAIN r.chain :
                          r.chain[k] # "pending" => s.chain[k] = r.chain[k] ]_vars

\* Two attempts were refused and the third connected: the promise has the
\* stream of the third.
C40_Witness ==
    \E q \in DOMAIN requests :
        /\ requests[q].chain = << "following", "following", "fulfilled" >>
        /\ requests[q].socket = "connected"
        /\ requests[q].stream = 3

\* A refused attempt was followed by one that failed otherwise: the promise
\* is rejected and no timer is set.
C40_WitnessRejected ==
    \E q \in DOMAIN requests :
        /\ requests[q].chain = << "following", "rejected" >>
        /\ requests[q].timer = -1

====
